---- MODULE Spec2Model ----
(***************************************************************************)
(* A model of the libtelnet-rs parser: the compatibility table, the IAC    *)
(* escaping functions, the segmentation scan (extract_event_data) and the  *)
(* interpretation of the segments (process), as called through receive.    *)
(* Byte sequences are TLA+ sequences; the code's 0-based indices are kept  *)
(* and converted at the point of access (At, Slice).                       *)
(***************************************************************************)
EXTENDS Integers, Sequences, FiniteSets, TLC

VARIABLES
  options,      \* Parser.options: the CompatibilityTable, option code -> u8
  buffer,       \* Parser.buffer: the accumulation buffer
  events,       \* the Vec<TelnetEvents> returned by the last receive call
  panicked,     \* TRUE once a call has hit an out-of-bounds index
  msg,          \* delivery scenario: the whole byte string to be delivered
  rest,         \* delivery scenario: the bytes not yet delivered
  ncalls,       \* delivery scenario: receive calls made for this round
  acc_events,   \* delivery scenario: events of this round's calls, in order
  early_events, \* delivery scenario: events of the calls before the last one
  init_options, \* delivery scenario: the table when the round started
  round,        \* delivery scenario: how often msg has been delivered
  first_len,    \* delivery scenario: length of this round's first piece
  prev_events,  \* delivery scenario: the events of the previous round
  esc_in,       \* escaping scenario: the input x
  esc_out,      \* escaping scenario: escape_iac(x)
  unesc_out,    \* escaping scenario: unescape_iac(escape_iac(x))
  esc_pc,       \* escaping scenario: "start", "escaped", "done" or "raw"
  op,           \* caller scenario: the name of the last call
  op_option,    \* caller scenario: the option argument of the last call
  op_data,      \* caller scenario: the bytes argument of the last call
  repeat,       \* caller scenario: the last call repeats the call before it
  pre_buffer    \* caller scenario: the buffer before the last call

vars == <<options, buffer, events, panicked, msg, rest, ncalls, acc_events,
          early_events, init_options, round, first_len, prev_events,
          esc_in, esc_out, unesc_out, esc_pc,
          op, op_option, op_data, repeat, pre_buffer>>

parserVars == <<options, buffer, events, panicked>>
deliverVars == <<msg, rest, ncalls, acc_events, early_events, init_options, round,
                 first_len, prev_events>>
escapeVars == <<esc_in, esc_out, unesc_out, esc_pc>>
apiVars == <<op, op_option, op_data, repeat, pre_buffer>>

(***************************************************************************)
(* telnet.rs: command and option codes                                     *)
(***************************************************************************)
IAC == 255
WILL == 251
WONT == 252
DO == 253
DONT == 254
NOP == 241
SB == 250
SE == 240
GA == 249
EOR == 239
MCCP2 == 86
MCCP3 == 87
EXOPL == 255
ECHO == 1

U8 == 0..255

(***************************************************************************)
(* compatibility.rs                                                        *)
(***************************************************************************)
ENABLED_LOCAL == 1
ENABLED_REMOTE == 2
LOCAL_STATE == 4
REMOTE_STATE == 8

\* value & mask == mask, for a one-bit mask
HasBit(value, mask) == (value \div mask) % 2 = 1

CompatibilityEntry_from(value) ==
  [local        |-> HasBit(value, ENABLED_LOCAL),
   remote       |-> HasBit(value, ENABLED_REMOTE),
   local_state  |-> HasBit(value, LOCAL_STATE),
   remote_state |-> HasBit(value, REMOTE_STATE)]

into_u8(entry) ==
    (IF entry.local THEN ENABLED_LOCAL ELSE 0)
  + (IF entry.remote THEN ENABLED_REMOTE ELSE 0)
  + (IF entry.local_state THEN LOCAL_STATE ELSE 0)
  + (IF entry.remote_state THEN REMOTE_STATE ELSE 0)

CompatibilityTable_new == [o \in U8 |-> 0]

RECURSIVE from_options(_)
from_options(values) ==
  IF values = <<>> THEN CompatibilityTable_new
  ELSE LET n == Len(values)
           t == from_options(SubSeq(values, 1, n - 1))
       IN [t EXCEPT ![values[n][1]] = values[n][2]]

get_option(table, option) == CompatibilityEntry_from(table[option])

set_option(table, option, entry) == [table EXCEPT ![option] = into_u8(entry)]

(***************************************************************************)
(* lib.rs: escape_iac / unescape_iac                                       *)
(***************************************************************************)
RECURSIVE escape_iac(_)
escape_iac(data) ==
  IF data = <<>> THEN <<>>
  ELSE LET byte == Head(data)
       IN (IF byte = 255 THEN <<byte, 255>> ELSE <<byte>>) \o escape_iac(Tail(data))

\* the loop of unescape_iac with its carried variable `last`
RECURSIVE unescape_loop(_, _)
unescape_loop(data, last) ==
  IF data = <<>> THEN <<>>
  ELSE LET val == Head(data)
       IN IF val = 255 /\ last = 255
          THEN unescape_loop(Tail(data), last)
          ELSE <<val>> \o unescape_loop(Tail(data), val)

unescape_iac(data) == unescape_loop(data, 0)

(***************************************************************************)
(* events.rs: the TelnetEvents variants, as records of one shape           *)
(***************************************************************************)
build_iac(command) ==
  [type |-> "IAC", command |-> command, option |-> 0, buffer |-> <<>>]
build_negotiation(command, option) ==
  [type |-> "Negotiation", command |-> command, option |-> option, buffer |-> <<>>]
build_subnegotiation(option, buf) ==
  [type |-> "Subnegotiation", command |-> 0, option |-> option, buffer |-> buf]
build_receive(buf) ==
  [type |-> "DataReceive", command |-> 0, option |-> 0, buffer |-> buf]
build_send(buf) ==
  [type |-> "DataSend", command |-> 0, option |-> 0, buffer |-> buf]
DecompressImmediate(buf) ==
  [type |-> "DecompressImmediate", command |-> 0, option |-> 0, buffer |-> buf]

\* impl Into<Bytes> for TelnetSubnegotiation
TelnetSubnegotiation_into_bytes(option, buf) ==
  <<255, 250, option>> \o escape_iac(buf) \o <<255, 240>>

(***************************************************************************)
(* Indexing as the code does it: 0-based, and out of bounds is a panic.    *)
(***************************************************************************)
InBounds(buf, i) == i >= 0 /\ i < Len(buf)
At(buf, i) == IF InBounds(buf, i) THEN buf[i + 1] ELSE 0
\* &buf[a..b]
SliceOk(buf, a, b) == 0 <= a /\ a <= b /\ b <= Len(buf)
Slice(buf, a, b) == IF SliceOk(buf, a, b) THEN SubSeq(buf, a + 1, b) ELSE <<>>

(***************************************************************************)
(* lib.rs: EventType, the segments of extract_event_data                   *)
(***************************************************************************)
EventType_None(bytes) ==
  [kind |-> "None", bytes |-> bytes, has_remaining |-> FALSE, remaining |-> <<>>]
EventType_IAC(bytes) ==
  [kind |-> "IAC", bytes |-> bytes, has_remaining |-> FALSE, remaining |-> <<>>]
EventType_Neg(bytes) ==
  [kind |-> "Neg", bytes |-> bytes, has_remaining |-> FALSE, remaining |-> <<>>]
EventType_SubNegotiation(bytes, has_remaining, remaining) ==
  [kind |-> "SubNegotiation", bytes |-> bytes,
   has_remaining |-> has_remaining, remaining |-> remaining]

(***************************************************************************)
(* lib.rs: extract_event_data.  The scan state is the loop's locals:       *)
(* iter_state, cmd_begin, events, whether the loop was left by `break`,    *)
(* and whether an index was out of bounds.                                 *)
(***************************************************************************)
ScanStart ==
  [iter_state |-> "Normal", cmd_begin |-> 0, events |-> <<>>,
   brk |-> FALSE, panic |-> FALSE]

\* State::Normal
ScanNormal(buf, s, index, val) ==
  IF val = IAC
  THEN [s EXCEPT
          !.events = IF s.cmd_begin < index
                     THEN Append(@, EventType_None(Slice(buf, s.cmd_begin, index)))
                     ELSE @,
          !.panic = s.cmd_begin < index /\ ~SliceOk(buf, s.cmd_begin, index),
          !.cmd_begin = index,
          !.iter_state = "IAC"]
  ELSE s

\* the IAC state knowing go-ahead as its only command
ScanIAC_OnlyGA(buf, s, index, val) ==
  CASE val = IAC -> [s EXCEPT !.iter_state = "Normal"]
    [] val = GA ->
         [s EXCEPT
            !.events = Append(@, EventType_IAC(Slice(buf, s.cmd_begin, index + 1))),
            !.panic = ~SliceOk(buf, s.cmd_begin, index + 1),
            !.cmd_begin = index + 1,
            !.iter_state = "Normal"]
    [] val = SB -> [s EXCEPT !.iter_state = "Sub"]
    [] OTHER -> [s EXCEPT !.iter_state = "Neg"]

\* State::IAC
ScanIAC(buf, s, index, val) ==
  CASE val = IAC -> [s EXCEPT !.iter_state = "Normal"]
    [] val \in {GA, EOR, NOP} ->
         [s EXCEPT
            !.events = Append(@, EventType_IAC(Slice(buf, s.cmd_begin, index + 1))),
            !.panic = ~SliceOk(buf, s.cmd_begin, index + 1),
            !.cmd_begin = index + 1,
            !.iter_state = "Normal"]
    [] val = SB -> [s EXCEPT !.iter_state = "Sub"]
    [] OTHER -> [s EXCEPT !.iter_state = "Neg"]

\* State::Neg
ScanNeg(buf, s, index, val) ==
  [s EXCEPT
     !.events = Append(@, EventType_Neg(Slice(buf, s.cmd_begin, index + 1))),
     !.panic = ~SliceOk(buf, s.cmd_begin, index + 1),
     !.cmd_begin = index + 1,
     !.iter_state = "Normal"]

\* the suffix test without the look-back at the preceding byte
has_suffix_AnySE(buf, index, val) == val = SE

\* let has_suffix = val == SE && self.buffer[index - 1] == IAC
has_suffix(buf, index, val) == val = SE /\ At(buf, index - 1) = IAC

\* the test with one of the two option codes forgotten
IsMCCP_OnlyMCCP2(opt) == opt = MCCP2
IsMCCP_OnlyMCCP3(opt) == opt = MCCP3

\* *opt == telnet::op_option::MCCP2 || *opt == telnet::op_option::MCCP3
IsMCCP(opt) == opt = MCCP2 \/ opt = MCCP3

\* State::Sub
ScanSub(buf, s, index, val) ==
  LET cmd_begin == s.cmd_begin
      \* index - cmd_begin on usize, and the three buffer reads of the lets
      bad_index ==
        \/ index < cmd_begin
        \/ ~InBounds(buf, cmd_begin)
        \/ (At(buf, cmd_begin) = IAC /\ ~InBounds(buf, cmd_begin + 1))
        \/ (val = SE /\ ~InBounds(buf, index - 1))
      long_enough == index - cmd_begin >= 4
      has_prefix == At(buf, cmd_begin) = IAC /\ At(buf, cmd_begin + 1) = SB
      opt == At(buf, cmd_begin + 2)
  IN IF bad_index THEN [s EXCEPT !.panic = TRUE]
     ELSE IF long_enough /\ has_prefix /\ has_suffix(buf, index, val)
     THEN IF ~InBounds(buf, cmd_begin + 2) THEN [s EXCEPT !.panic = TRUE]
          ELSE IF IsMCCP(opt)
          THEN [s EXCEPT
                  !.events = Append(@, EventType_SubNegotiation(
                                          Slice(buf, cmd_begin, index + 1),
                                          TRUE,
                                          Slice(buf, index + 1, Len(buf)))),
                  !.panic = ~SliceOk(buf, cmd_begin, index + 1)
                            \/ ~SliceOk(buf, index + 1, Len(buf)),
                  !.cmd_begin = Len(buf),
                  !.brk = TRUE]
          ELSE [s EXCEPT
                  !.events = Append(@, EventType_SubNegotiation(
                                          Slice(buf, cmd_begin, index + 1),
                                          FALSE, <<>>)),
                  !.panic = ~SliceOk(buf, cmd_begin, index + 1),
                  !.cmd_begin = index + 1,
                  !.iter_state = "Normal"]
     ELSE s

ScanByte(buf, s, index) ==
  LET val == At(buf, index)
  IN CASE s.iter_state = "Normal" -> ScanNormal(buf, s, index, val)
       [] s.iter_state = "IAC"    -> ScanIAC(buf, s, index, val)
       [] s.iter_state = "Neg"    -> ScanNeg(buf, s, index, val)
       [] s.iter_state = "Sub"    -> ScanSub(buf, s, index, val)

\* for (index, &val) in self.buffer.iter().enumerate()
RECURSIVE ScanLoop(_, _, _)
ScanLoop(buf, s, index) ==
  IF index >= Len(buf) \/ s.brk \/ s.panic THEN s
  ELSE ScanLoop(buf, ScanByte(buf, s, index), index + 1)

\* the segment pushed after the loop, if any
ScanTrailing(buf, s) ==
  IF s.panic \/ ~(s.cmd_begin < Len(buf)) THEN s
  ELSE IF s.iter_state = "Sub"
  THEN [s EXCEPT !.events = Append(@, EventType_SubNegotiation(
                                         Slice(buf, s.cmd_begin, Len(buf)),
                                         FALSE, <<>>))]
  ELSE [s EXCEPT !.events = Append(@, EventType_None(
                                         Slice(buf, s.cmd_begin, Len(buf))))]

\* the segments of buf and whether the scan panicked; the caller's buffer
\* is empty afterwards (self.buffer.clear())
extract_event_data(buf) ==
  LET s == ScanTrailing(buf, ScanLoop(buf, ScanStart, 0))
  IN [events |-> s.events, panic |-> s.panic]

(***************************************************************************)
(* lib.rs: process.  The state threaded through the loop over the          *)
(* segments is the table, the (cleared) buffer, event_list and the panic   *)
(* flag.                                                                   *)
(***************************************************************************)
\* the WILL arm notifying the caller of a refused option as well
ProcessWill_NotifyRefusal(p, option, opt, event) ==
  IF opt.remote /\ ~opt.remote_state
  THEN [p EXCEPT
          !.options = set_option(@, option, [opt EXCEPT !.remote_state = TRUE]),
          !.event_list = @ \o <<build_send(<<IAC, DO, option>>), event>>]
  ELSE IF ~opt.remote
  THEN [p EXCEPT !.event_list = @ \o <<build_send(<<IAC, DONT, option>>), event>>]
  ELSE p

\* the WILL arm answering DO whenever the option is supported
ProcessWill_AlwaysReply(p, option, opt, event) ==
  IF opt.remote
  THEN [p EXCEPT
          !.options = set_option(@, option, [opt EXCEPT !.remote_state = TRUE]),
          !.event_list = @ \o <<build_send(<<IAC, DO, option>>), event>>]
  ELSE [p EXCEPT !.event_list = Append(@, build_send(<<IAC, DONT, option>>))]

\* WILL => { ... }
ProcessWill(p, option, opt, event) ==
  IF opt.remote /\ ~opt.remote_state
  THEN [p EXCEPT
          !.options = set_option(@, option, [opt EXCEPT !.remote_state = TRUE]),
          !.event_list = @ \o <<build_send(<<IAC, DO, option>>), event>>]
  ELSE IF ~opt.remote
  THEN [p EXCEPT !.event_list = Append(@, build_send(<<IAC, DONT, option>>))]
  ELSE p

\* the WONT arm staying silent when the option is not enabled
ProcessWont_Silent(p, option, opt, event) ==
  IF opt.remote_state
  THEN [p EXCEPT
          !.options = set_option(@, option, [opt EXCEPT !.remote_state = FALSE]),
          !.event_list = @ \o <<build_send(<<IAC, DONT, option>>), event>>]
  ELSE p

\* WONT => { ... }
ProcessWont(p, option, opt, event) ==
  IF opt.remote_state
  THEN [p EXCEPT
          !.options = set_option(@, option, [opt EXCEPT !.remote_state = FALSE]),
          !.event_list = @ \o <<build_send(<<IAC, DONT, option>>), event>>]
  ELSE [p EXCEPT !.event_list = Append(@, event)]

\* the DO arm notifying the caller before it replies
ProcessDo_NotifyFirst(p, option, opt, event) ==
  IF opt.local /\ ~opt.local_state
  THEN [p EXCEPT
          !.options = set_option(@, option,
                        [opt EXCEPT !.local_state = TRUE, !.remote_state = TRUE]),
          !.event_list = @ \o <<event, build_send(<<IAC, WILL, option>>)>>]
  ELSE IF ~opt.local
  THEN [p EXCEPT !.event_list = Append(@, build_send(<<IAC, WONT, option>>))]
  ELSE p

\* the DO arm taking a request for an unsupported option as support for it
ProcessDo_GrantsSupport(p, option, opt, event) ==
  IF ~opt.local_state
  THEN [p EXCEPT
          !.options = set_option(@, option,
                        [opt EXCEPT !.local = TRUE, !.local_state = TRUE,
                                    !.remote_state = TRUE]),
          !.event_list = @ \o <<build_send(<<IAC, WILL, option>>), event>>]
  ELSE p

\* the DO arm notifying the caller of every DO for a supported option
ProcessDo_AlwaysNotify(p, option, opt, event) ==
  IF opt.local /\ ~opt.local_state
  THEN [p EXCEPT
          !.options = set_option(@, option,
                        [opt EXCEPT !.local_state = TRUE, !.remote_state = TRUE]),
          !.event_list = @ \o <<build_send(<<IAC, WILL, option>>), event>>]
  ELSE IF ~opt.local
  THEN [p EXCEPT !.event_list = Append(@, build_send(<<IAC, WONT, option>>))]
  ELSE [p EXCEPT !.event_list = Append(@, event)]

\* the DO arm enabling only the local side
ProcessDo_LocalOnly(p, option, opt, event) ==
  IF opt.local /\ ~opt.local_state
  THEN [p EXCEPT
          !.options = set_option(@, option, [opt EXCEPT !.local_state = TRUE]),
          !.event_list = @ \o <<build_send(<<IAC, WILL, option>>), event>>]
  ELSE IF ~opt.local
  THEN [p EXCEPT !.event_list = Append(@, build_send(<<IAC, WONT, option>>))]
  ELSE p

\* DO => { ... }
ProcessDo(p, option, opt, event) ==
  IF opt.local /\ ~opt.local_state
  THEN [p EXCEPT
          !.options = set_option(@, option,
                        [opt EXCEPT !.local_state = TRUE, !.remote_state = TRUE]),
          !.event_list = @ \o <<build_send(<<IAC, WILL, option>>), event>>]
  ELSE IF ~opt.local
  THEN [p EXCEPT !.event_list = Append(@, build_send(<<IAC, WONT, option>>))]
  ELSE p

\* DONT => { ... }
ProcessDont(p, option, opt, event) ==
  IF opt.local_state
  THEN [p EXCEPT
          !.options = set_option(@, option, [opt EXCEPT !.local_state = FALSE]),
          !.event_list = @ \o <<build_send(<<IAC, WONT, option>>), event>>]
  ELSE [p EXCEPT !.event_list = Append(@, event)]

\* the 3-byte arm notifying the caller of a verb it does not know
ProcessNegotiation_NotifyUnknown(p, seg) ==
  LET verb == At(seg, 1)
      option == At(seg, 2)
      opt == get_option(p.options, option)
      event == build_negotiation(verb, option)
  IN CASE verb = WILL -> ProcessWill(p, option, opt, event)
       [] verb = WONT -> ProcessWont(p, option, opt, event)
       [] verb = DO   -> ProcessDo(p, option, opt, event)
       [] verb = DONT -> ProcessDont(p, option, opt, event)
       [] OTHER -> [p EXCEPT !.event_list = Append(@, event)]

\* the 3-byte arm: match buffer[1] { WILL, WONT, DO, DONT, _ }
ProcessNegotiation(p, seg) ==
  LET verb == At(seg, 1)
      option == At(seg, 2)
      opt == get_option(p.options, option)
      event == build_negotiation(verb, option)
  IN CASE verb = WILL -> ProcessWill(p, option, opt, event)
       [] verb = WONT -> ProcessWont(p, option, opt, event)
       [] verb = DO   -> ProcessDo(p, option, opt, event)
       [] verb = DONT -> ProcessDont(p, option, opt, event)
       [] OTHER -> p

\* EventType::None(buffer) | EventType::IAC(buffer) | EventType::Neg(buffer)
ProcessPlain(p, seg) ==
  IF seg = <<>> THEN p
  ELSE IF At(seg, 0) = IAC
  THEN CASE Len(seg) = 2 ->
              IF At(seg, 1) # SE
              THEN [p EXCEPT !.event_list = Append(@, build_iac(At(seg, 1)))]
              ELSE p
         [] Len(seg) = 3 -> ProcessNegotiation(p, seg)
         [] OTHER -> p
  ELSE [p EXCEPT !.event_list = Append(@, build_receive(seg))]

\* the guard looking at the supported flag alone
SubnegotiationGuard_LocalOnly(opt, len) == opt.local /\ len - 2 >= 3

\* the guard asking for a payload byte
SubnegotiationGuard_NeedsPayload(opt, len) == opt.local /\ opt.local_state /\ len - 2 >= 4

\* the guard without its length test
SubnegotiationGuard_NoLength(opt, len) == opt.local /\ opt.local_state

\* the guard of the Subnegotiation event: opt.local && opt.local_state && len - 2 >= 3
SubnegotiationGuard(opt, len) == opt.local /\ opt.local_state /\ len - 2 >= 3

\* the ending accepted only on a segment of the scan's minimum length
ValidEnding_MinLength(seg, len) ==
  len >= 5 /\ At(seg, len - 2) = IAC /\ At(seg, len - 1) = SE

\* buffer[len - 2] == IAC && buffer[len - 1] == SE
ValidEnding(seg, len) == At(seg, len - 2) = IAC /\ At(seg, len - 1) = SE

\* EventType::SubNegotiation(buffer, remaining)
ProcessSubNegotiation(p, seg, has_remaining, remaining) ==
  LET len == Len(seg)
  IN IF len < 2 \/ ~InBounds(seg, len - 2) \/ (At(seg, len - 2) = IAC /\ ~InBounds(seg, len - 1))
     THEN [p EXCEPT !.panic = TRUE]
     ELSE IF ValidEnding(seg, len)
     THEN IF ~InBounds(seg, 2) THEN [p EXCEPT !.panic = TRUE]
          ELSE LET opt == get_option(p.options, At(seg, 2))
               IN IF SubnegotiationGuard(opt, len)
                  THEN IF ~SliceOk(seg, 3, len - 2) THEN [p EXCEPT !.panic = TRUE]
                       ELSE [p EXCEPT !.event_list =
                               @ \o <<build_subnegotiation(At(seg, 2), Slice(seg, 3, len - 2))>>
                                 \o (IF has_remaining
                                     THEN <<DecompressImmediate(remaining)>>
                                     ELSE <<>>)]
                  ELSE p
     ELSE [p EXCEPT !.buffer = @ \o seg]

ProcessSegment(p, event) ==
  IF event.kind = "SubNegotiation"
  THEN ProcessSubNegotiation(p, event.bytes, event.has_remaining, event.remaining)
  ELSE ProcessPlain(p, event.bytes)

\* for event in self.extract_event_data()
RECURSIVE ProcessLoop(_, _)
ProcessLoop(p, segs) ==
  IF segs = <<>> \/ p.panic THEN p
  ELSE ProcessLoop(ProcessSegment(p, Head(segs)), Tail(segs))

\* process on a buffer that extract_event_data did not clear
process_KeepsBuffer(table, buf) ==
  LET x == extract_event_data(buf)
      p0 == [options |-> table, buffer |-> buf, event_list |-> <<>>, panic |-> x.panic]
  IN ProcessLoop(p0, x.events)

process(table, buf) ==
  LET x == extract_event_data(buf)
      p0 == [options |-> table, buffer |-> <<>>, event_list |-> <<>>, panic |-> x.panic]
  IN ProcessLoop(p0, x.events)

\* receive: self.buffer.put(data); self.process()
receive(table, buf, data) == process(table, buf \o data)

(***************************************************************************)
(* compatibility.rs: support_local / support_remote / support              *)
(***************************************************************************)
\* support_local inverting the flag instead of setting it
support_local_Toggle(table, option) ==
  LET opt == CompatibilityEntry_from(table[option])
  IN set_option(table, option, [opt EXCEPT !.local = ~opt.local])

support_local(table, option) ==
  set_option(table, option,
             [CompatibilityEntry_from(table[option]) EXCEPT !.local = TRUE])

\* support_remote setting both supported flags
support_remote_Both(table, option) ==
  set_option(table, option,
             [CompatibilityEntry_from(table[option]) EXCEPT !.local = TRUE, !.remote = TRUE])

support_remote(table, option) ==
  set_option(table, option,
             [CompatibilityEntry_from(table[option]) EXCEPT !.remote = TRUE])

support(table, option) ==
  set_option(table, option,
             [CompatibilityEntry_from(table[option]) EXCEPT !.local = TRUE, !.remote = TRUE])

(***************************************************************************)
(* lib.rs: the outbound operations.  Each yields the table after the call  *)
(* and what the call returns: <<>> for None, <<event>> for Some(event).    *)
(***************************************************************************)
\* impl Into<Bytes> for TelnetNegotiation
TelnetNegotiation_into_bytes(command, option) == <<255, command, option>>

negotiate(command, option) == build_send(TelnetNegotiation_into_bytes(command, option))

\* _will returning its frame without recording the transition
Parser_will_NoFlip(table, option) ==
  LET opt == get_option(table, option)
  IN IF opt.local /\ ~opt.local_state
     THEN [options |-> table, ret |-> <<negotiate(251, option)>>]
     ELSE [options |-> table, ret |-> <<>>]

Parser_will(table, option) ==
  LET opt == get_option(table, option)
  IN IF opt.local /\ ~opt.local_state
     THEN [options |-> set_option(table, option, [opt EXCEPT !.local_state = TRUE]),
           ret |-> <<negotiate(251, option)>>]
     ELSE [options |-> table, ret |-> <<>>]

Parser_wont(table, option) ==
  LET opt == get_option(table, option)
  IN IF opt.local_state
     THEN [options |-> set_option(table, option, [opt EXCEPT !.local_state = FALSE]),
           ret |-> <<negotiate(252, option)>>]
     ELSE [options |-> table, ret |-> <<>>]

Parser_do(table, option) ==
  LET opt == get_option(table, option)
  IN IF opt.remote /\ ~opt.remote_state
     THEN [options |-> table, ret |-> <<negotiate(253, option)>>]
     ELSE [options |-> table, ret |-> <<>>]

Parser_dont(table, option) ==
  LET opt == get_option(table, option)
  IN IF opt.remote_state
     THEN [options |-> table, ret |-> <<negotiate(254, option)>>]
     ELSE [options |-> table, ret |-> <<>>]

\* subnegotiation guarded by the supported flag alone
subnegotiation_LocalOnly(table, option, data) ==
  LET opt == get_option(table, option)
  IN IF opt.local
     THEN <<build_send(TelnetSubnegotiation_into_bytes(option, data))>>
     ELSE <<>>

subnegotiation(table, option, data) ==
  LET opt == get_option(table, option)
  IN IF opt.local /\ opt.local_state
     THEN <<build_send(TelnetSubnegotiation_into_bytes(option, data))>>
     ELSE <<>>

\* format!("{}\r\n", text).into_bytes(), escaped
send_text(text) == build_send(escape_iac(text \o <<13, 10>>))

(***************************************************************************)
(* Bounds and input sets                                                   *)
(***************************************************************************)
MaxLen == 3        \* longest byte string one receive call delivers in Spec
MaxBuf == 6        \* longest combined buffer a call of Spec scans
MaxPayload == 2    \* longest subnegotiation payload of a delivery scenario
MaxTrailing == 2   \* most bytes after a frame in a delivery scenario
MaxPieces == 3     \* most receive calls one delivery is split into
MaxRounds == 2     \* how often a message is delivered
MaxEscLen == 4     \* longest input of the escaping scenario
MaxUnits == 3      \* most protocol units in the bytes of one receive call of SpecStream
MaxArg == 2        \* longest payload or text passed to an outbound operation

SeqsUpTo(S, n) == UNION {[1..k -> S] : k \in 0..n}

\* option codes the scenarios configure: a plain option, the two MCCP
\* options, and the option whose code is the IAC byte
Opts == {ECHO, MCCP2, MCCP3, EXOPL}
\* packed table entries: the four flag bits, and two bytes with a bit above them
FlagValues == (0..15) \cup {16, 21}
InitTables == {from_options(<<<<o, f>>>>) : o \in Opts, f \in 0..15}
\* the tables of the fuzzed parser: one entry set to any of the flag values
FuzzTables == {from_options(<<<<o, f>>>>) : o \in {MCCP2, EXOPL}, f \in FlagValues}

\* bytes delivered by Spec: the markers the scan distinguishes, a verb, and
\* an MCCP option code that also serves as a data byte
Alphabet == {IAC, SB, SE, GA, DO, MCCP2}
Inputs == SeqsUpTo(Alphabet, MaxLen)

\* wire messages of the delivery scenarios
PlainMessages == SeqsUpTo({ECHO, 32}, 2) \ {<<>>}
CommandMessages == {<<IAC, c>> : c \in {GA, EOR, NOP}}
NegotiationMessages == {<<IAC, v, o>> : v \in {WILL, WONT, DO, DONT}, o \in Opts}
Payloads == SeqsUpTo({32, SE}, MaxPayload)
Frame(o, payload) == <<IAC, SB, o>> \o payload \o <<IAC, SE>>
FrameMessages == {Frame(o, p) : o \in Opts, p \in Payloads}
\* bytes after a frame: GA alone is data, IAC GA a command
Trailings == SeqsUpTo({IAC, GA}, MaxTrailing)
FrameWithTrailing == {f \o t : f \in FrameMessages, t \in Trailings}
MalformedMessages == {<<IAC, SB, IAC, SE>>}
\* frames made by the outbound builder from payloads that may hold IAC bytes
BuilderPayloads == SeqsUpTo({IAC, SE}, MaxPayload)
BuilderFrames == {TelnetSubnegotiation_into_bytes(o, p) :
                    o \in Opts \ {MCCP2, MCCP3}, p \in BuilderPayloads}
Messages == PlainMessages \cup CommandMessages \cup NegotiationMessages
            \cup FrameWithTrailing \cup MalformedMessages \cup BuilderFrames

EscInputs == SeqsUpTo({IAC, SE, 32}, MaxEscLen)

\* the caller scenario: the option the calls name, the tables it starts
\* from (that option's entry set to any flag value, and a second entry the
\* calls do not name), and the arguments
ApiOpts == {ECHO}
ApiTables == {from_options(<<<<ECHO, f>>, <<MCCP2, g>>>>) : f \in FlagValues, g \in {0, 5, 21}}
ApiPayloads == SeqsUpTo({32, IAC}, MaxArg)
\* a &str holds UTF-8, which has no 0xFF byte
ApiTexts == SeqsUpTo({65}, MaxArg)
ApiInputs == {<<IAC, v, o>> : v \in {WILL, WONT, DO, DONT}, o \in ApiOpts}
             \cup {<<IAC, SB, ECHO, 32>>, <<IAC, SE>>, <<IAC, GA>>, <<32>>}

\* the units a byte stream is made of: plain data, an escaped IAC, the
\* commands, a negotiation, a verb the parser does not know, complete
\* frames with and without payload, a frame of a compression option, an
\* unterminated frame and a lone IAC
StreamUnits ==
  {<<32>>, <<IAC, IAC>>, <<IAC, GA>>, <<IAC, EOR>>, <<IAC, NOP>>,
   <<IAC, DO, ECHO>>, <<IAC, 0, ECHO>>,
   Frame(ECHO, <<32>>), Frame(ECHO, <<>>), Frame(MCCP2, <<32>>),
   <<IAC, SB, ECHO, 32>>, <<IAC>>}
RECURSIVE StreamsOf(_)
StreamsOf(n) ==
  IF n = 0 THEN {<<>>}
  ELSE {s \o u : s \in StreamsOf(n - 1), u \in StreamUnits \cup {<<>>}}
StreamInputs == StreamsOf(MaxUnits)
\* what a second call delivers after a call that left a frame unterminated
Continuations ==
  {c \o u : c \in {<<IAC, SE>>, <<32, IAC, SE>>, <<32>>},
            u \in {<<>>, <<IAC, GA>>, <<IAC, DONT, ECHO>>}}
\* both options of the stream units carry the same flags: every combination
\* of the local flags, and all four flags set
StreamFlags == {0, 1, 4, 5, 15}
StreamTables == {from_options(<<<<ECHO, f>>, <<MCCP2, f>>>>) : f \in StreamFlags}

(***************************************************************************)
(* Actions                                                                 *)
(***************************************************************************)
\* the fuzz target's loop body: parser.receive(&data); the returned events
\* are dropped
Receive(data) ==
  /\ ~panicked
  /\ Len(buffer) + Len(data) <= MaxBuf
  /\ LET r == receive(options, buffer, data)
     IN /\ options' = r.options
        /\ buffer' = r.buffer
        /\ panicked' = r.panic
  /\ UNCHANGED <<events, deliverVars, escapeVars, apiVars>>

\* one call of Parser::receive by a caller that keeps the returned events
ReceiveCall(data) ==
  /\ ~panicked
  /\ LET r == receive(options, buffer, data)
     IN /\ options' = r.options
        /\ buffer' = r.buffer
        /\ events' = r.event_list
        /\ panicked' = r.panic

\* deliver the next k bytes of the message with one receive call
Deliver(k) ==
  /\ rest # <<>>
  /\ k \in 1..Len(rest)
  /\ ncalls < MaxPieces
  /\ (ncalls = MaxPieces - 1 => k = Len(rest))
  /\ ReceiveCall(SubSeq(rest, 1, k))
  /\ rest' = SubSeq(rest, k + 1, Len(rest))
  /\ ncalls' = ncalls + 1
  /\ acc_events' = acc_events \o events'
  /\ early_events' = acc_events
  /\ first_len' = IF ncalls = 0 THEN k ELSE first_len
  /\ UNCHANGED <<msg, init_options, round, prev_events, escapeVars, apiVars>>

\* the peer repeats a negotiation it has sent
Resend ==
  /\ rest = <<>>
  /\ msg \in NegotiationMessages
  /\ ~panicked
  /\ round < MaxRounds
  /\ rest' = msg
  /\ round' = round + 1
  /\ ncalls' = 0
  /\ acc_events' = <<>>
  /\ early_events' = <<>>
  /\ init_options' = options
  /\ first_len' = 0
  /\ prev_events' = acc_events
  /\ UNCHANGED <<msg, parserVars, escapeVars, apiVars>>

\* the bookkeeping of one call of the caller scenario; the events of the
\* call before are kept when this call repeats it
ApiCall(name, option, data, new_options, new_buffer, ret, panic) ==
  /\ ~panicked
  /\ options' = new_options
  /\ buffer' = new_buffer
  /\ events' = ret
  /\ panicked' = panic
  /\ init_options' = options
  /\ pre_buffer' = buffer
  /\ repeat' = (op = name /\ op_option = option /\ op_data = data)
  /\ prev_events' = IF repeat' THEN events ELSE <<>>
  /\ op' = name
  /\ op_option' = option
  /\ op_data' = data
  /\ UNCHANGED <<msg, rest, ncalls, acc_events, early_events, round, first_len, escapeVars>>

CallWill(o) ==
  LET r == Parser_will(options, o)
  IN ApiCall("_will", o, <<>>, r.options, buffer, r.ret, FALSE)

CallWont(o) ==
  LET r == Parser_wont(options, o)
  IN ApiCall("_wont", o, <<>>, r.options, buffer, r.ret, FALSE)

CallDo(o) ==
  LET r == Parser_do(options, o)
  IN ApiCall("_do", o, <<>>, r.options, buffer, r.ret, FALSE)

CallDont(o) ==
  LET r == Parser_dont(options, o)
  IN ApiCall("_dont", o, <<>>, r.options, buffer, r.ret, FALSE)

CallSubnegotiation(o, data) ==
  ApiCall("subnegotiation", o, data, options, buffer, subnegotiation(options, o, data), FALSE)

CallSendText(text) ==
  ApiCall("send_text", 0, text, options, buffer, <<send_text(text)>>, FALSE)

CallSupportLocal(o) ==
  ApiCall("support_local", o, <<>>, support_local(options, o), buffer, <<>>, FALSE)

CallSupportRemote(o) ==
  ApiCall("support_remote", o, <<>>, support_remote(options, o), buffer, <<>>, FALSE)

CallSupport(o) ==
  ApiCall("support", o, <<>>, support(options, o), buffer, <<>>, FALSE)

CallReceive(data) ==
  /\ Len(buffer) + Len(data) <= MaxBuf
  /\ LET r == receive(options, buffer, data)
     IN ApiCall("receive", 0, data, r.options, r.buffer, r.event_list, r.panic)

\* the first receive call of a stream
StreamReceive(data) ==
  /\ op = "none"
  /\ LET r == receive(options, buffer, data)
     IN ApiCall("receive", 0, data, r.options, r.buffer, r.event_list, r.panic)

\* the receive call after one that left bytes in the buffer
StreamContinue(data) ==
  /\ op = "receive"
  /\ pre_buffer = <<>>
  /\ buffer # <<>>
  /\ LET r == receive(options, buffer, data)
     IN ApiCall("receive", 0, data, r.options, r.buffer, r.event_list, r.panic)

Escape ==
  /\ esc_pc = "start"
  /\ esc_out' = escape_iac(esc_in)
  /\ esc_pc' = "escaped"
  /\ UNCHANGED <<esc_in, unesc_out, parserVars, deliverVars, apiVars>>

Unescape ==
  /\ esc_pc = "escaped"
  /\ unesc_out' = unescape_iac(esc_out)
  /\ esc_pc' = "done"
  /\ UNCHANGED <<esc_in, esc_out, parserVars, deliverVars, apiVars>>

\* unescape_iac applied to the input as it is
UnescapeRaw ==
  /\ esc_pc = "start"
  /\ unesc_out' = unescape_iac(esc_in)
  /\ esc_pc' = "raw"
  /\ UNCHANGED <<esc_in, esc_out, parserVars, deliverVars, apiVars>>

(***************************************************************************)
(* Specifications                                                          *)
(***************************************************************************)
ParserInit ==
  /\ options \in InitTables
  /\ buffer = <<>>
  /\ events = <<>>
  /\ panicked = FALSE

DeliverIdle ==
  /\ msg = <<>>
  /\ rest = <<>>
  /\ ncalls = 0
  /\ acc_events = <<>>
  /\ early_events = <<>>
  /\ init_options = CompatibilityTable_new
  /\ round = 0
  /\ first_len = 0
  /\ prev_events = <<>>

EscapeIdle ==
  /\ esc_in = <<>>
  /\ esc_out = <<>>
  /\ unesc_out = <<>>
  /\ esc_pc = "idle"

ApiIdle ==
  /\ op = "none"
  /\ op_option = 0
  /\ op_data = <<>>
  /\ repeat = FALSE
  /\ pre_buffer = <<>>

\* the parser fed arbitrary byte strings, as by the fuzz target
Init ==
  /\ options \in FuzzTables
  /\ buffer = <<>>
  /\ events = <<>>
  /\ panicked = FALSE
  /\ DeliverIdle
  /\ EscapeIdle
  /\ ApiIdle
Next == \E data \in Inputs : Receive(data)
Spec == Init /\ [][Next]_vars

\* one wire message delivered in pieces to a fresh parser
InitDeliver ==
  /\ ParserInit
  /\ msg \in Messages
  /\ rest = msg
  /\ ncalls = 0
  /\ acc_events = <<>>
  /\ early_events = <<>>
  /\ init_options = options
  /\ round = 1
  /\ first_len = 0
  /\ prev_events = <<>>
  /\ EscapeIdle
  /\ ApiIdle
NextDeliver == (\E k \in 1..(MaxPayload + MaxTrailing + 5) : Deliver(k)) \/ Resend
SpecDeliver == InitDeliver /\ [][NextDeliver]_vars

\* escape_iac followed by unescape_iac on one input
InitEscape ==
  /\ options = CompatibilityTable_new
  /\ buffer = <<>>
  /\ events = <<>>
  /\ panicked = FALSE
  /\ DeliverIdle
  /\ esc_in \in EscInputs
  /\ esc_out = <<>>
  /\ unesc_out = <<>>
  /\ esc_pc = "start"
  /\ ApiIdle
NextEscape == Escape \/ Unescape \/ UnescapeRaw
SpecEscape == InitEscape /\ [][NextEscape]_vars

\* a caller using the table, the outbound operations and receive in any order
InitApi ==
  /\ options \in ApiTables
  /\ buffer = <<>>
  /\ events = <<>>
  /\ panicked = FALSE
  /\ DeliverIdle
  /\ EscapeIdle
  /\ ApiIdle
NextApi ==
  \/ \E o \in ApiOpts : CallWill(o)
  \/ \E o \in ApiOpts : CallWont(o)
  \/ \E o \in ApiOpts : CallDo(o)
  \/ \E o \in ApiOpts : CallDont(o)
  \/ \E o \in ApiOpts : \E data \in ApiPayloads : CallSubnegotiation(o, data)
  \/ \E text \in ApiTexts : CallSendText(text)
  \/ \E o \in ApiOpts : CallSupportLocal(o)
  \/ \E o \in ApiOpts : CallSupportRemote(o)
  \/ \E o \in ApiOpts : CallSupport(o)
  \/ \E data \in ApiInputs : CallReceive(data)
SpecApi == InitApi /\ [][NextApi]_vars

\* byte streams of several protocol units received in one call, and the
\* call that follows an unterminated frame
InitStream ==
  /\ options \in StreamTables
  /\ buffer = <<>>
  /\ events = <<>>
  /\ panicked = FALSE
  /\ DeliverIdle
  /\ EscapeIdle
  /\ ApiIdle
NextStream ==
  \/ op = "none" /\ \E data \in StreamInputs : StreamReceive(data)
  \/ op = "receive" /\ buffer # <<>> /\ \E data \in Continuations : StreamContinue(data)
SpecStream == InitStream /\ [][NextStream]_vars

TypeOK ==
  /\ options \in [U8 -> U8]
  /\ buffer \in Seq(U8)
  /\ panicked \in BOOLEAN

(***************************************************************************)
(* Helpers for the properties                                              *)
(***************************************************************************)
EventsOfType(evs, t) == SelectSeq(evs, LAMBDA e : e.type = t)

\* a delivery of the whole message by one receive call, in the first round
WholeDelivery == round = 1 /\ ncalls = 1 /\ rest = <<>>

\* adjacent DataReceive events joined into one, so that event lists are
\* compared without regard to how plain data was chunked
RECURSIVE Coalesce(_)
Coalesce(evs) ==
  IF Len(evs) < 2 THEN evs
  ELSE IF evs[1].type = "DataReceive" /\ evs[2].type = "DataReceive"
  THEN Coalesce(<<build_receive(evs[1].buffer \o evs[2].buffer)>> \o SubSeq(evs, 3, Len(evs)))
  ELSE <<evs[1]>> \o Coalesce(Tail(evs))

NonMCCPFrames == {Frame(o, p) : o \in Opts \ {MCCP2, MCCP3}, p \in Payloads}
ValidMessages == PlainMessages \cup CommandMessages \cup NegotiationMessages
                 \cup NonMCCPFrames

(***************************************************************************)
(* C1. Fragmentation invariance: a valid wire message (plain data, a       *)
(* 2-byte command, a 3-byte negotiation, a complete non-MCCP               *)
(* subnegotiation frame) delivered in two non-empty pieces yields, over    *)
(* the two receive calls, the events one receive call of the whole message *)
(* yields from the same parser state.  Stated in its most lenient reading: *)
(* plain data delivered as two DataReceive events counts as equal to the   *)
(* same data in one event.                                                 *)
(***************************************************************************)
C1_FragmentationInvariance ==
  (msg \in ValidMessages /\ round = 1 /\ ncalls = 2 /\ rest = <<>>)
    => /\ ~panicked
       /\ Coalesce(acc_events) = Coalesce(receive(init_options, <<>>, msg).event_list)

(***************************************************************************)
(* C2. No receive call indexes the buffer or a segment out of bounds,      *)
(* whatever the table and however the bytes are fragmented.                *)
(***************************************************************************)
C2_NoPanic == panicked = FALSE

\* a subnegotiation header was delivered with no further bytes and is held
\* in the buffer; the IAC option is enabled in the table
C2_Witness ==
  /\ ~panicked
  /\ buffer = <<IAC, SB>>
  /\ get_option(options, EXOPL).local
  /\ get_option(options, EXOPL).local_state

(***************************************************************************)
(* C3. Escape round trip: unescape_iac(escape_iac(x)) = x for every byte   *)
(* sequence x.                                                             *)
(***************************************************************************)
C3_RoundTrip == esc_pc = "done" => unesc_out = esc_in

(***************************************************************************)
(* C4. Negotiation symmetry: IAC DO opt received when opt is               *)
(* local_supported and not local_enabled yields exactly one DataSend,      *)
(* [IAC, WILL, opt], and sets local_enabled and remote_enabled of opt;     *)
(* IAC DO opt received again yields no event and leaves the table          *)
(* unchanged.                                                              *)
(***************************************************************************)
IsDo(m) == Len(m) = 3 /\ m[1] = IAC /\ m[2] = DO

C4_NegotiationSymmetry ==
  /\ (WholeDelivery /\ IsDo(msg)
        /\ get_option(init_options, msg[3]).local
        /\ ~get_option(init_options, msg[3]).local_state)
       => /\ EventsOfType(events, "DataSend") = <<build_send(<<IAC, WILL, msg[3]>>)>>
          /\ get_option(options, msg[3]).local_state
          /\ get_option(options, msg[3]).remote_state
  /\ (round = 2 /\ ncalls = 1 /\ rest = <<>> /\ IsDo(msg)
        /\ build_send(<<IAC, WILL, msg[3]>>) \in {prev_events[i] : i \in DOMAIN prev_events})
       => /\ events = <<>>
          /\ options = init_options

\* the option was enabled by the first IAC DO and the second one has been
\* received
C4_Witness ==
  /\ round = 2 /\ ncalls = 1 /\ rest = <<>> /\ IsDo(msg)
  /\ prev_events = <<build_send(<<IAC, WILL, msg[3]>>), build_negotiation(DO, msg[3])>>
  /\ events = <<>>
  /\ get_option(options, msg[3]).local_state
  /\ get_option(options, msg[3]).remote_state

(***************************************************************************)
(* C5. Unsupported refusal: IAC WILL opt for an opt that is not            *)
(* remote_supported yields the single event DataSend([IAC, DONT, opt]);    *)
(* IAC DO opt for an opt that is not local_supported yields the single     *)
(* event DataSend([IAC, WONT, opt]); no Negotiation event, and the table   *)
(* is unchanged.                                                           *)
(***************************************************************************)
C5_UnsupportedRefusal ==
  (WholeDelivery /\ Len(msg) = 3 /\ msg[1] = IAC)
    => /\ (msg[2] = WILL /\ ~get_option(init_options, msg[3]).remote)
            => /\ events = <<build_send(<<IAC, DONT, msg[3]>>)>>
               /\ options = init_options
       /\ (msg[2] = DO /\ ~get_option(init_options, msg[3]).local)
            => /\ events = <<build_send(<<IAC, WONT, msg[3]>>)>>
               /\ options = init_options

\* an offer of an option that is locally but not remotely supported has
\* been refused
C5_Witness ==
  /\ WholeDelivery /\ Len(msg) = 3 /\ msg[1] = IAC /\ msg[2] = WILL
  /\ get_option(init_options, msg[3]).local
  /\ ~get_option(init_options, msg[3]).remote
  /\ events = <<build_send(<<IAC, DONT, msg[3]>>)>>

(***************************************************************************)
(* C6. Subnegotiation reassembly: the frame IAC SB opt payload IAC SE of   *)
(* a non-MCCP option that is local_supported and local_enabled, payload    *)
(* without 0xFF, delivered over two or more receive calls of which the     *)
(* first holds at least IAC SB: every call before the one delivering the   *)
(* closing SE returns no events, and that one returns exactly              *)
(* Subnegotiation(opt, payload).                                           *)
(***************************************************************************)
C6_Reassembly ==
  \A o \in Opts \ {MCCP2, MCCP3} : \A pl \in Payloads :
    (/\ msg = Frame(o, pl)
     /\ round = 1
     /\ ncalls >= 1
     /\ first_len >= 2
     /\ get_option(init_options, o).local
     /\ get_option(init_options, o).local_state)
      => /\ (rest # <<>> => acc_events = <<>>)
         /\ (rest = <<>> /\ ncalls >= 2)
              => /\ early_events = <<>>
                 /\ events = <<build_subnegotiation(o, pl)>>

(***************************************************************************)
(* C7. Compression hand-off: with MCCP2 or MCCP3 local_supported and       *)
(* local_enabled, one receive call holding a complete subnegotiation of    *)
(* that option followed by trailing bytes returns the Subnegotiation event *)
(* followed by one DecompressImmediate event carrying all the trailing     *)
(* bytes verbatim, nothing else, and the buffer is empty afterwards.       *)
(***************************************************************************)
C7_CompressionHandOff ==
  \A o \in {MCCP2, MCCP3} : \A pl \in Payloads : \A t \in Trailings :
    (/\ msg = Frame(o, pl) \o t
     /\ WholeDelivery
     /\ get_option(init_options, o).local
     /\ get_option(init_options, o).local_state)
      => /\ events = <<build_subnegotiation(o, pl), DecompressImmediate(t)>>
         /\ buffer = <<>>

\* an MCCP3 frame followed by the bytes of a command has been received
C7_Witness ==
  /\ WholeDelivery
  /\ msg = Frame(MCCP3, <<32>>) \o <<IAC, GA>>
  /\ events = <<build_subnegotiation(MCCP3, <<32>>), DecompressImmediate(<<IAC, GA>>)>>
  /\ buffer = <<>>

(***************************************************************************)
(* C8. Subnegotiation happy path: with option 86 local_supported and       *)
(* local_enabled and an empty buffer, receive([IAC, SB, 86, 0x20, IAC,     *)
(* SE]) returns ...                                                        *)
(***************************************************************************)
HappyPath ==
  /\ msg = <<IAC, SB, 86, 32, IAC, SE>>
  /\ WholeDelivery
  /\ get_option(init_options, 86).local
  /\ get_option(init_options, 86).local_state

\* ... as claimed: the one event Subnegotiation(86, [0x20]), buffer empty
C8_HappyPath_Original ==
  HappyPath => /\ events = <<build_subnegotiation(86, <<32>>)>>
               /\ buffer = <<>>

\* C8 as amended: the event Subnegotiation(86, [0x20]) followed by a
\* DecompressImmediate event with no bytes, buffer empty
C8_HappyPath ==
  HappyPath => /\ events = <<build_subnegotiation(86, <<32>>), DecompressImmediate(<<>>)>>
               /\ buffer = <<>>

C8_Witness == HappyPath /\ Len(events) = 2 /\ buffer = <<>>

(***************************************************************************)
(* C9. Malformed subnegotiation: with option 0xFF local_supported and      *)
(* local_enabled, receive([IAC, SB, IAC, SE]) does not fail, returns no    *)
(* event, and leaves an empty buffer and the same table, so that the next  *)
(* receive call behaves as on a parser with an empty buffer.               *)
(***************************************************************************)
Malformed ==
  /\ msg = <<IAC, SB, IAC, SE>>
  /\ WholeDelivery
  /\ get_option(init_options, IAC).local
  /\ get_option(init_options, IAC).local_state

C9_MalformedSubnegotiation ==
  Malformed => /\ ~panicked
               /\ events = <<>>
               /\ buffer = <<>>
               /\ options = init_options

C9_Witness == Malformed /\ ~panicked /\ buffer = <<>>

(***************************************************************************)
(* C10. Only an SE preceded by IAC ends a subnegotiation: the frame of a   *)
(* local_supported and local_enabled option whose payload holds SE bytes   *)
(* not preceded by IAC (and no 0xFF) yields ...                            *)
(***************************************************************************)
HasSE(pl) == \E i \in DOMAIN pl : pl[i] = SE

\* ... as claimed: exactly one event, Subnegotiation(opt, payload)
C10_EmbeddedSE_Original ==
  \A o \in Opts : \A pl \in Payloads :
    (/\ msg = Frame(o, pl)
     /\ HasSE(pl)
     /\ WholeDelivery
     /\ get_option(init_options, o).local
     /\ get_option(init_options, o).local_state)
      => events = <<build_subnegotiation(o, pl)>>

\* C10 as amended: exactly one Subnegotiation event, with the payload
\* intact; it is the only event, except that for MCCP2 and MCCP3 one
\* DecompressImmediate event follows it
C10_EmbeddedSE ==
  \A o \in Opts : \A pl \in Payloads :
    (/\ msg = Frame(o, pl)
     /\ HasSE(pl)
     /\ WholeDelivery
     /\ get_option(init_options, o).local
     /\ get_option(init_options, o).local_state)
      => /\ Len(events) = IF o \in {MCCP2, MCCP3} THEN 2 ELSE 1
         /\ events[1] = build_subnegotiation(o, pl)
         /\ Len(events) = 2 => events[2].type = "DecompressImmediate"

\* a frame whose payload starts with SE has been received for a plain option
C10_Witness ==
  /\ msg = Frame(ECHO, <<SE, 32>>)
  /\ WholeDelivery
  /\ events = <<build_subnegotiation(ECHO, <<SE, 32>>)>>

(***************************************************************************)
(* C11. Builder-to-parser round trip: the bytes of                         *)
(* TelnetSubnegotiation(o, p), for a non-MCCP option o that is             *)
(* local_supported and local_enabled and any payload p (0xFF and 0xF0      *)
(* bytes included), received by a parser with an empty buffer yield the    *)
(* one event Subnegotiation(o, escape_iac(p)) and leave the buffer empty.  *)
(***************************************************************************)
C11_BuilderRoundTrip ==
  \A o \in Opts \ {MCCP2, MCCP3} : \A pl \in BuilderPayloads :
    (/\ msg = TelnetSubnegotiation_into_bytes(o, pl)
     /\ WholeDelivery
     /\ get_option(init_options, o).local
     /\ get_option(init_options, o).local_state)
      => /\ events = <<build_subnegotiation(o, escape_iac(pl))>>
         /\ buffer = <<>>

(***************************************************************************)
(* C12. unescape_iac collapses each adjacent 0xFF 0xFF pair, taken from    *)
(* the left, into one 0xFF and passes every other byte through: a run of   *)
(* n 0xFF bytes becomes ceil(n/2) of them, a lone trailing 0xFF stays.     *)
(***************************************************************************)
RECURSIVE PairwiseCollapse(_)
PairwiseCollapse(data) ==
  IF Len(data) < 2 THEN data
  ELSE IF data[1] = 255 /\ data[2] = 255
  THEN <<255>> \o PairwiseCollapse(SubSeq(data, 3, Len(data)))
  ELSE <<data[1]>> \o PairwiseCollapse(Tail(data))

C12_PairwiseUnescape == esc_pc = "raw" => unesc_out = PairwiseCollapse(esc_in)

(***************************************************************************)
(* Outbound operations and the table, in the caller scenario SpecApi       *)
(***************************************************************************)
OutboundHelpers == {"_will", "_wont", "_do", "_dont"}

\* the enabled flag an outbound helper is about
HelperFlag(name, entry) ==
  IF name \in {"_will", "_wont"} THEN entry.local_state ELSE entry.remote_state

FlagFlipped ==
  HelperFlag(op, get_option(options, op_option))
    # HelperFlag(op, get_option(init_options, op_option))

\* C13 as stated: an outbound helper (_will, _wont, _do, _dont) that returns
\* a frame has flipped the enabled flag of its option, an immediately
\* repeated call after a frame returns nothing, and a call returning nothing
\* leaves the table unchanged.
C13_StateChangingOnly_Original ==
  op \in OutboundHelpers =>
    /\ events # <<>> => FlagFlipped
    /\ (repeat /\ prev_events # <<>>) => events = <<>>
    /\ events = <<>> => options = init_options

HelperVerb(name) ==
  CASE name = "_will" -> WILL
    [] name = "_wont" -> WONT
    [] name = "_do" -> DO
    [] name = "_dont" -> DONT

\* C13 amended: _will and _wont return a frame only when they flip
\* local_enabled, so an immediately repeated call returns nothing; _do and
\* _dont never change the table and return their frame whenever the option
\* is (remote_supported and not remote_enabled), respectively remote_enabled,
\* so an immediately repeated call returns the same frame again; any frame
\* is [IAC, verb, option], and a call returning nothing leaves the table
\* unchanged.
C13_StateChangingOnly ==
  op \in OutboundHelpers =>
    /\ events # <<>> => events = <<build_send(<<IAC, HelperVerb(op), op_option>>)>>
    /\ events = <<>> => options = init_options
    /\ op \in {"_will", "_wont"} =>
         /\ events # <<>> => FlagFlipped
         /\ (repeat /\ prev_events # <<>>) => events = <<>>
    /\ op \in {"_do", "_dont"} =>
         /\ options = init_options
         /\ repeat => events = prev_events
         /\ LET opt == get_option(init_options, op_option)
            IN events # <<>> <=> IF op = "_do" THEN opt.remote /\ ~opt.remote_state
                                 ELSE opt.remote_state

\* a repeated _do that returned its frame both times
C13_Witness ==
  /\ op = "_do"
  /\ repeat
  /\ prev_events # <<>>
  /\ events = prev_events

\* a repeated _will that returned a frame and then nothing
C13_WillWitness ==
  /\ op = "_will"
  /\ repeat
  /\ prev_events # <<>>
  /\ events = <<>>

\* C14: send_text(text) returns one DataSend holding the escaped text, then
\* CR LF, then [IAC, GA] as its last two bytes, and changes neither the
\* table nor the buffer.
C14_SendText ==
  op = "send_text" =>
    /\ events = <<build_send(escape_iac(op_data) \o <<13, 10>> \o <<IAC, GA>>)>>
    /\ options = init_options
    /\ buffer = pre_buffer

\* C15: subnegotiation(option, payload) returns a frame exactly when the
\* option is local_supported and local_enabled; the frame is
\* [IAC,SB,option] ++ escape_iac(payload) ++ [IAC,SE]; the table and the
\* accumulation buffer are unchanged either way.
C15_SubnegotiationFrame ==
  op = "subnegotiation" =>
    LET opt == get_option(init_options, op_option)
    IN /\ events # <<>> <=> (opt.local /\ opt.local_state)
       /\ events # <<>> =>
            events = <<build_send(<<IAC, SB, op_option>> \o escape_iac(op_data)
                                    \o <<IAC, SE>>)>>
       /\ options = init_options
       /\ buffer = pre_buffer

\* a frame built from a payload holding 0xFF while the buffer holds an
\* unfinished inbound frame
C15_Witness ==
  /\ op = "subnegotiation"
  /\ events # <<>>
  /\ \E i \in 1..Len(op_data) : op_data[i] = IAC
  /\ buffer # <<>>

EnabledImpliesSupported(table) ==
  \A o \in U8 :
    LET opt == get_option(table, o)
    IN /\ opt.local_state => opt.local
       /\ opt.remote_state => opt.remote

\* C16: no call of receive, _will, _wont, _do, _dont, subnegotiation,
\* support_local, support_remote or support takes a table in which every
\* option satisfies enabled => supported (both directions) to a table in
\* which some option does not.
C16_EnabledImpliesSupported ==
  [][EnabledImpliesSupported(options) => EnabledImpliesSupported(options')]_vars

\* C17: a second support_local(option) right after the first leaves the
\* whole table as the first call left it.
C17_SupportLocalIdempotent ==
  (op = "support_local" /\ repeat) => options = init_options

\* support_local called twice on an option
C17_Witness ==
  /\ op = "support_local"
  /\ repeat
  /\ get_option(options, op_option).local

SupportCalls == {"support_local", "support_remote", "support"}

\* C18: on a table whose entries use only the four flag bits,
\* support_local(o), support_remote(o) and support(o) set the named
\* supported flag(s) of o and leave local_enabled and remote_enabled of o,
\* the other supported flag of o (single-direction calls) and every other
\* option's entry unchanged.
C18_SupportFrame ==
  (op \in SupportCalls /\ \A x \in U8 : init_options[x] < 16) =>
    LET before == get_option(init_options, op_option)
        after == get_option(options, op_option)
    IN /\ after.local_state = before.local_state
       /\ after.remote_state = before.remote_state
       /\ op = "support_local" => (after.local /\ after.remote = before.remote)
       /\ op = "support_remote" => (after.remote /\ after.local = before.local)
       /\ op = "support" => (after.local /\ after.remote)
       /\ \A x \in U8 \ {op_option} : options[x] = init_options[x]

\* support_remote on an option that is enabled locally and not supported
\* locally, next to another option with flags of its own
C18_Witness ==
  /\ op = "support_remote"
  /\ \A x \in U8 : init_options[x] < 16
  /\ init_options[op_option] = 4
  /\ options[op_option] = 6
  /\ \E x \in U8 \ {op_option} : options[x] # 0

(***************************************************************************)
(* Inbound negotiation, in the delivery scenario SpecDeliver               *)
(***************************************************************************)
\* the message is a negotiation with this verb and one receive call has
\* delivered it whole, in any round
NegotiationReceived(verb) ==
  /\ ncalls = 1 /\ rest = <<>>
  /\ Len(msg) = 3 /\ msg[1] = IAC /\ msg[2] = verb

\* C19: IAC WILL opt for an opt that is remote_supported and not
\* remote_enabled sets remote_enabled, leaves local_enabled and both
\* supported flags (and every other entry) as they were, and emits
\* DataSend([IAC,DO,opt]); for an opt that is remote_supported and already
\* remote_enabled it emits no reply and changes no state.
C19_WillEnables ==
  NegotiationReceived(WILL) =>
    LET opt == get_option(init_options, msg[3])
    IN /\ (opt.remote /\ ~opt.remote_state) =>
            /\ options = set_option(init_options, msg[3],
                                    [opt EXCEPT !.remote_state = TRUE])
            /\ get_option(options, msg[3]) = [opt EXCEPT !.remote_state = TRUE]
            /\ EventsOfType(events, "DataSend") = <<build_send(<<IAC, DO, msg[3]>>)>>
       /\ (opt.remote /\ opt.remote_state) =>
            /\ EventsOfType(events, "DataSend") = <<>>
            /\ options = init_options
            /\ buffer = <<>>

\* the same offer received twice: the first has been answered with DO, the
\* second has not been answered
C19_Witness ==
  /\ NegotiationReceived(WILL)
  /\ round = 2
  /\ prev_events = <<build_send(<<IAC, DO, msg[3]>>), build_negotiation(WILL, msg[3])>>
  /\ get_option(init_options, msg[3]).remote_state
  /\ events = <<>>

\* C20: IAC WONT opt leaves remote_enabled false and emits
\* DataSend([IAC,DONT,opt]) exactly when remote_enabled was true before;
\* IAC DONT opt leaves local_enabled false and emits
\* DataSend([IAC,WONT,opt]) exactly when local_enabled was true before;
\* either way exactly one Negotiation(verb, opt) event is emitted and no
\* other flag of the table changes.
C20_DisableRequests ==
  /\ NegotiationReceived(WONT) =>
       LET opt == get_option(init_options, msg[3])
       IN /\ options = set_option(init_options, msg[3],
                                  [opt EXCEPT !.remote_state = FALSE])
          /\ get_option(options, msg[3]) = [opt EXCEPT !.remote_state = FALSE]
          /\ EventsOfType(events, "DataSend") =
               IF opt.remote_state THEN <<build_send(<<IAC, DONT, msg[3]>>)>> ELSE <<>>
          /\ EventsOfType(events, "Negotiation") = <<build_negotiation(WONT, msg[3])>>
          /\ Len(events) = IF opt.remote_state THEN 2 ELSE 1
  /\ NegotiationReceived(DONT) =>
       LET opt == get_option(init_options, msg[3])
       IN /\ options = set_option(init_options, msg[3],
                                  [opt EXCEPT !.local_state = FALSE])
          /\ get_option(options, msg[3]) = [opt EXCEPT !.local_state = FALSE]
          /\ EventsOfType(events, "DataSend") =
               IF opt.local_state THEN <<build_send(<<IAC, WONT, msg[3]>>)>> ELSE <<>>
          /\ EventsOfType(events, "Negotiation") = <<build_negotiation(DONT, msg[3])>>
          /\ Len(events) = IF opt.local_state THEN 2 ELSE 1

\* a DONT for an option enabled in both directions has cleared the local
\* side only and has been answered with WONT
C20_Witness ==
  /\ NegotiationReceived(DONT)
  /\ get_option(init_options, msg[3]).local_state
  /\ get_option(init_options, msg[3]).remote_state
  /\ ~get_option(options, msg[3]).local_state
  /\ get_option(options, msg[3]).remote_state
  /\ events = <<build_send(<<IAC, WONT, msg[3]>>), build_negotiation(DONT, msg[3])>>

\* C21 as stated: a received IAC WILL opt (resp. IAC DO opt) yields exactly
\* one Negotiation(verb, opt) event if and only if opt is remote_supported
\* (resp. local_supported), whether or not the option is already enabled;
\* an unsupported option yields only the refusal reply.
C21_NotifyIffSupported_Original ==
  /\ NegotiationReceived(WILL) =>
       LET opt == get_option(init_options, msg[3])
       IN /\ EventsOfType(events, "Negotiation") =
               IF opt.remote THEN <<build_negotiation(WILL, msg[3])>> ELSE <<>>
          /\ ~opt.remote => events = <<build_send(<<IAC, DONT, msg[3]>>)>>
  /\ NegotiationReceived(DO) =>
       LET opt == get_option(init_options, msg[3])
       IN /\ EventsOfType(events, "Negotiation") =
               IF opt.local THEN <<build_negotiation(DO, msg[3])>> ELSE <<>>
          /\ ~opt.local => events = <<build_send(<<IAC, WONT, msg[3]>>)>>

\* C21 amended: a received IAC WILL opt (resp. IAC DO opt) yields exactly
\* one Negotiation(verb, opt) event if and only if opt is remote_supported
\* and not yet remote_enabled (resp. local_supported and not yet
\* local_enabled); for a supported option that is already enabled no event
\* at all is emitted; an unsupported option yields only the refusal reply.
C21_NotifyIffSupported ==
  /\ NegotiationReceived(WILL) =>
       LET opt == get_option(init_options, msg[3])
       IN /\ EventsOfType(events, "Negotiation") =
               IF opt.remote /\ ~opt.remote_state
               THEN <<build_negotiation(WILL, msg[3])>> ELSE <<>>
          /\ (opt.remote /\ opt.remote_state) => events = <<>>
          /\ ~opt.remote => events = <<build_send(<<IAC, DONT, msg[3]>>)>>
  /\ NegotiationReceived(DO) =>
       LET opt == get_option(init_options, msg[3])
       IN /\ EventsOfType(events, "Negotiation") =
               IF opt.local /\ ~opt.local_state
               THEN <<build_negotiation(DO, msg[3])>> ELSE <<>>
          /\ (opt.local /\ opt.local_state) => events = <<>>
          /\ ~opt.local => events = <<build_send(<<IAC, WONT, msg[3]>>)>>

\* a first IAC DO for an option that is supported and already enabled
\* locally has been received without any event
C21_Witness ==
  /\ NegotiationReceived(DO)
  /\ round = 1
  /\ get_option(init_options, msg[3]).local
  /\ get_option(init_options, msg[3]).local_state
  /\ events = <<>>

(***************************************************************************)
(* One receive call and its combined buffer, in the stream scenario        *)
(* SpecStream                                                              *)
(***************************************************************************)
\* the buffer the last receive call scanned, and its segments
Combined == pre_buffer \o op_data
Received == op = "receive" /\ ~panicked
Segments == extract_event_data(Combined).events

\* the bytes on the wire an event reports; a DataSend is a reply and
\* reports none
Origin(e) ==
  CASE e.type = "DataReceive" -> e.buffer
    [] e.type = "IAC" -> <<IAC, e.command>>
    [] e.type = "Negotiation" -> <<IAC, e.command, e.option>>
    [] e.type = "Subnegotiation" -> <<IAC, SB, e.option>> \o e.buffer \o <<IAC, SE>>
    [] e.type = "DecompressImmediate" -> e.buffer
    [] OTHER -> <<>>

\* the first position at or after from where pat occurs in buf, 0 if none
FindFrom(buf, pat, from) ==
  LET hits == {i \in from..(Len(buf) - Len(pat) + 1) :
                 SubSeq(buf, i, i + Len(pat) - 1) = pat}
  IN IF hits = {} THEN 0 ELSE CHOOSE i \in hits : \A j \in hits : i <= j

\* the events' bytes occur in buf one after the other, from position from on
RECURSIVE OrderedIn(_, _, _)
OrderedIn(evs, buf, from) ==
  IF evs = <<>> THEN TRUE
  ELSE LET pat == Origin(Head(evs))
           at == FindFrom(buf, pat, from)
       IN at # 0 /\ OrderedIn(Tail(evs), buf, at + Len(pat))

\* the events each segment contributes, the table threaded through them
RECURSIVE EventsBySegment(_, _)
EventsBySegment(table, segs) ==
  IF segs = <<>> THEN <<>>
  ELSE LET p == ProcessSegment([options |-> table, buffer |-> <<>>,
                                event_list |-> <<>>, panic |-> FALSE], Head(segs))
       IN <<p.event_list>> \o EventsBySegment(p.options, Tail(segs))

RECURSIVE Flatten(_)
Flatten(seqs) == IF seqs = <<>> THEN <<>> ELSE Head(seqs) \o Flatten(Tail(seqs))

\* C22: the events of one receive call appear in the order of the bytes
\* they arose from in the combined buffer (carried-over bytes, then the
\* delivered bytes); a negotiation segment contributes at most one DataSend
\* and at most one Negotiation event, and when it contributes both the
\* DataSend comes immediately before the Negotiation.
C22_EventOrdering ==
  Received =>
    LET per == EventsBySegment(init_options, Segments)
    IN /\ OrderedIn(events, Combined, 1)
       /\ events = Flatten(per)
       /\ \A i \in 1..Len(per) :
            Segments[i].kind = "Neg" =>
              /\ Len(EventsOfType(per[i], "DataSend")) <= 1
              /\ Len(EventsOfType(per[i], "Negotiation")) <= 1
              /\ Len(per[i]) <= 2
              /\ Len(per[i]) = 2 =>
                   (per[i][1].type = "DataSend" /\ per[i][2].type = "Negotiation")

\* a call whose buffer began with carried-over bytes and that returned the
\* frame's event, a reply and its notification, in that order
C22_Witness ==
  /\ Received
  /\ pre_buffer # <<>>
  /\ Len(events) = 3
  /\ events[1].type = "Subnegotiation"
  /\ events[2].type = "DataSend"
  /\ events[3].type = "Negotiation"

\* the bytes of the Plain (EventType::None) segments of a scan, in order
PlainSegmentBytes(segs) ==
  LET plain == SelectSeq(segs, LAMBDA g : g.kind = "None" /\ g.bytes # <<>>)
  IN [i \in 1..Len(plain) |-> plain[i].bytes]

\* C23: every non-empty Plain segment of the scan, whatever its first byte
\* and length, results in a DataReceive event carrying exactly its bytes;
\* none is dropped or turned into another kind of event.
C23_PlainSegmentsDelivered ==
  Received =>
    LET data == EventsOfType(events, "DataReceive")
    IN [i \in 1..Len(data) |-> data[i].buffer] = PlainSegmentBytes(Segments)

\* the scan of the first i bytes of buf ends in the Plain state
PlainStateAt(buf, i) ==
  LET s == ScanLoop(SubSeq(buf, 1, i), ScanStart, 0)
  IN s.iter_state = "Normal" /\ ~s.brk /\ ~s.panic

\* the index after the plain bytes that start at index i of buf
RECURSIVE PlainRunEnd(_, _)
PlainRunEnd(buf, i) ==
  IF i >= Len(buf) \/ At(buf, i) = IAC THEN i ELSE PlainRunEnd(buf, i + 1)

IsSuffix(suf, seq) ==
  Len(suf) <= Len(seq) /\ SubSeq(seq, Len(seq) - Len(suf) + 1, Len(seq)) = suf

\* C24: an escaped literal IAC (0xFF 0xFF) met in the Plain state never
\* produces an IAC command event or a negotiation, and the two bytes with
\* the plain bytes after them, up to the next protocol marker, are
\* delivered in a DataReceive event.
C24_EscapedIACIsData ==
  Received =>
    \A i \in 0..(Len(Combined) - 2) :
      (PlainStateAt(Combined, i) /\ At(Combined, i) = IAC /\ At(Combined, i + 1) = IAC)
        => /\ \A k \in 1..Len(events) :
                ~(events[k].type \in {"IAC", "Negotiation"} /\ events[k].command = IAC)
           /\ \E k \in 1..Len(events) :
                /\ events[k].type = "DataReceive"
                /\ IsSuffix(Slice(Combined, i, PlainRunEnd(Combined, i + 2)),
                            events[k].buffer)

\* the call's result is that of receiving the first i bytes, then the
\* events mid, then that of receiving the bytes from index j on, each on an
\* empty buffer with the table the part before left
SplitsAs(i, mid, j) ==
  LET P == receive(init_options, <<>>, Slice(Combined, 0, i))
      R == receive(P.options, <<>>, Slice(Combined, j, Len(Combined)))
  IN /\ events = P.event_list \o mid \o R.event_list
     /\ options = R.options
     /\ buffer = R.buffer

\* C25: IAC c with c in {GA, EOR, NOP} met in the Plain state closes a
\* 2-byte command at once: exactly one IAC command event carrying c at that
\* position, whatever the table, no table entry changed, and the bytes
\* after it scanned from the Plain state; no receive call emits an IAC
\* command event whose code is SE.
C25_CommandSegments ==
  Received =>
    /\ \A k \in 1..Len(events) : events[k] # build_iac(SE)
    /\ \A i \in 0..(Len(Combined) - 2) :
         (PlainStateAt(Combined, i) /\ At(Combined, i) = IAC
            /\ At(Combined, i + 1) \in {GA, EOR, NOP})
           => /\ \E k \in 1..Len(Segments) :
                   Segments[k] = EventType_IAC(<<IAC, At(Combined, i + 1)>>)
              /\ SplitsAs(i, <<build_iac(At(Combined, i + 1))>>, i + 2)

\* an end-of-record command between an enabling negotiation and a frame of
\* the option it enabled
C25_Witness ==
  /\ Received
  /\ Combined = <<IAC, DO, ECHO, IAC, EOR>> \o Frame(ECHO, <<32>>)
  /\ events = <<build_send(<<IAC, WILL, ECHO>>), build_negotiation(DO, ECHO),
                build_iac(EOR), build_subnegotiation(ECHO, <<32>>)>>

KnownSecondBytes == {IAC, GA, EOR, NOP, SB, WILL, WONT, DO, DONT}

\* C26: IAC v o met in the Plain state with v none of IAC, GA, EOR, NOP,
\* SB, WILL, WONT, DO, DONT is consumed as one negotiation segment of three
\* bytes, emits no event, changes no table entry, and the scan resumes in
\* the Plain state at the next byte.
C26_UnknownVerb ==
  Received =>
    \A i \in 0..(Len(Combined) - 3) :
      (PlainStateAt(Combined, i) /\ At(Combined, i) = IAC
         /\ At(Combined, i + 1) \notin KnownSecondBytes)
        => /\ \E k \in 1..Len(Segments) :
                Segments[k] = EventType_Neg(Slice(Combined, i, i + 3))
           /\ SplitsAs(i, <<>>, i + 3)

\* an unknown verb between plain data and a command
C26_Witness ==
  /\ Received
  /\ Combined = <<32, IAC, 0, ECHO, IAC, GA>>
  /\ events = <<build_receive(<<32>>), build_iac(GA)>>
  /\ options = init_options

\* the index of the SE that ends the frame starting at index i of buf,
\* -1 if the frame is not complete
FrameEnd(buf, i) ==
  LET ends == {j \in (i + 4)..(Len(buf) - 1) : At(buf, j) = SE /\ At(buf, j - 1) = IAC}
  IN IF ends = {} THEN -1 ELSE CHOOSE j \in ends : \A k \in ends : j <= k

\* C27: a complete frame IAC SB opt ... IAC SE results in a Subnegotiation
\* event exactly when opt is local_supported and local_enabled at the time
\* the frame is interpreted; otherwise it is consumed with no event, is not
\* re-buffered, and no table entry changes.
C27_SubnegotiationIffEnabled ==
  Received =>
    \A i \in 0..(Len(Combined) - 5) :
      (PlainStateAt(Combined, i) /\ At(Combined, i) = IAC /\ At(Combined, i + 1) = SB
         /\ FrameEnd(Combined, i) >= 0)
        => LET j == FrameEnd(Combined, i)
               o == At(Combined, i + 2)
               P == receive(init_options, <<>>, Slice(Combined, 0, i))
               opt == get_option(P.options, o)
               enabled == opt.local /\ opt.local_state
               sub == build_subnegotiation(o, Slice(Combined, i + 3, j - 1))
           IN IF IsMCCP(o)
              THEN /\ events = P.event_list \o
                                 (IF enabled
                                  THEN <<sub, DecompressImmediate(
                                                Slice(Combined, j + 1, Len(Combined)))>>
                                  ELSE <<>>)
                   /\ options = P.options
                   /\ buffer = <<>>
              ELSE SplitsAs(i, IF enabled THEN <<sub>> ELSE <<>>, j + 1)

\* a frame of an option that the negotiation before it, in the same call,
\* has enabled
C27_Witness ==
  /\ Received
  /\ Combined = <<IAC, DO, ECHO>> \o Frame(ECHO, <<32>>) \o <<32>>
  /\ ~get_option(init_options, ECHO).local_state
  /\ events = <<build_send(<<IAC, WILL, ECHO>>), build_negotiation(DO, ECHO),
                build_subnegotiation(ECHO, <<32>>), build_receive(<<32>>)>>
  /\ buffer = <<>>

\* every Subnegotiation event comes from a segment that starts with
\* [IAC,SB], ends with [IAC,SE] and is at least minlen bytes long
SubnegotiationOnlyFrom(minlen) ==
  LET per == EventsBySegment(init_options, Segments)
  IN \A i \in 1..Len(per) :
       EventsOfType(per[i], "Subnegotiation") # <<>> =>
         LET seg == Segments[i].bytes
         IN /\ Len(seg) >= minlen
            /\ At(seg, 0) = IAC /\ At(seg, 1) = SB
            /\ At(seg, Len(seg) - 2) = IAC /\ At(seg, Len(seg) - 1) = SE

EmptyFrameReceived(o) ==
  /\ Received
  /\ Combined = Frame(o, <<>>)
  /\ get_option(init_options, o).local
  /\ get_option(init_options, o).local_state

\* C28 as stated: a Subnegotiation event is emitted only for a segment
\* that starts with [IAC,SB], ends with [IAC,SE] and has at least one
\* content byte between header and trailer; the 5-byte frame
\* [IAC,SB,opt,IAC,SE] yields no Subnegotiation event even when opt is
\* local_supported and local_enabled.
C28_NeedsContent_Original ==
  Received =>
    /\ SubnegotiationOnlyFrom(6)
    /\ \A o \in {ECHO, MCCP2} :
         EmptyFrameReceived(o) => EventsOfType(events, "Subnegotiation") = <<>>

\* C28 amended: a Subnegotiation event is emitted only for a segment that
\* starts with [IAC,SB], ends with [IAC,SE] and is at least five bytes
\* long, the payload possibly empty; the 5-byte frame [IAC,SB,opt,IAC,SE]
\* yields Subnegotiation(opt, []) when opt is local_supported and
\* local_enabled.
C28_NeedsContent ==
  Received =>
    /\ SubnegotiationOnlyFrom(5)
    /\ \A o \in {ECHO, MCCP2} :
         EmptyFrameReceived(o) =>
           EventsOfType(events, "Subnegotiation") = <<build_subnegotiation(o, <<>>)>>

\* the frame without payload has been reported
C28_Witness ==
  /\ EmptyFrameReceived(ECHO)
  /\ events = <<build_subnegotiation(ECHO, <<>>)>>

NegotiationVerbs == {WILL, WONT, DO, DONT}

\* C29: a receive call never changes local_supported or remote_supported
\* of any option, and changes local_enabled or remote_enabled only of an
\* option that is the option byte of a WILL, WONT, DO or DONT negotiation
\* segment of the call's combined buffer.
C29_ReceiveFrame ==
  Received =>
    \A o \in U8 :
      LET before == get_option(init_options, o)
          after == get_option(options, o)
      IN /\ after.local = before.local
         /\ after.remote = before.remote
         /\ (after.local_state # before.local_state
               \/ after.remote_state # before.remote_state)
              => \E k \in 1..Len(Segments) :
                   /\ Len(Segments[k].bytes) = 3
                   /\ At(Segments[k].bytes, 0) = IAC
                   /\ At(Segments[k].bytes, 1) \in NegotiationVerbs
                   /\ At(Segments[k].bytes, 2) = o

\* a call with a command, a frame and one negotiation, which changed the
\* entry of the negotiated option alone
C29_Witness ==
  /\ Received
  /\ Combined = <<IAC, GA>> \o Frame(ECHO, <<32>>) \o <<IAC, DO, ECHO>>
  /\ init_options[MCCP2] # 0
  /\ options[MCCP2] = init_options[MCCP2]
  /\ options[ECHO] # init_options[ECHO]

\* C30: after a receive call the accumulation buffer is empty or holds
\* exactly one unterminated subnegotiation: it begins with [IAC,SB], does
\* not end with [IAC,SE] and is a suffix of the buffer before the call
\* followed by the delivered bytes; no plain data, command or negotiation
\* is carried over.
C30_ResidualBuffer ==
  Received =>
    \/ buffer = <<>>
    \/ /\ Len(buffer) >= 2
       /\ At(buffer, 0) = IAC /\ At(buffer, 1) = SB
       /\ ~(At(buffer, Len(buffer) - 2) = IAC /\ At(buffer, Len(buffer) - 1) = SE)
       /\ IsSuffix(buffer, Combined)
       /\ extract_event_data(buffer).events =
            <<EventType_SubNegotiation(buffer, FALSE, <<>>)>>

\* the call after an unterminated frame delivered plain data and a
\* command, and the frame is still open
C30_Witness ==
  /\ Received
  /\ pre_buffer = <<IAC, SB, ECHO, 32>>
  /\ op_data = <<32, IAC, GA>>
  /\ buffer = <<IAC, SB, ECHO, 32, 32, IAC, GA>>
  /\ events = <<>>

(***************************************************************************)
(* Command codes and the bytes after a compression frame, in the delivery  *)
(* scenario SpecDeliver                                                    *)
(***************************************************************************)
\* C31: every IAC command event a receive call returns, for any message
\* and any way of cutting it into calls (a call may end right after
\* IAC verb or right after IAC IAC), carries a code in {GA, EOR, NOP};
\* WILL, WONT, DO, DONT, SB and IAC are never reported as a command code.
C31_CommandCodes ==
  \A k \in 1..Len(events) :
    events[k].type = "IAC" => events[k].command \in {GA, EOR, NOP}

\* C32: whatever the table entry of MCCP2 / MCCP3, the bytes that follow a
\* complete frame of that option in the same receive call are not
\* discarded: after the call they are carried by a DecompressImmediate
\* event or are kept at the end of the accumulation buffer.
C32_TrailingBytesKept ==
  \A o \in {MCCP2, MCCP3} : \A p \in Payloads : \A t \in Trailings \ {<<>>} :
    (WholeDelivery /\ msg = Frame(o, p) \o t)
      => \/ \E k \in 1..Len(events) : events[k] = DecompressImmediate(t)
         \/ IsSuffix(t, buffer)

====
